---- MODULE Spec2Model ----
(***************************************************************************)
(* rsteg: LSB image concealment pipeline (src/src/main.rs), the HSV colour *)
(* conversion (src/src/hsv.rs) and the keystream XOR (src/src/img.rs).     *)
(*                                                                         *)
(* Samples are u8 values 0..255.  f32 values are modelled as exact         *)
(* rationals <<num, den>> in lowest terms with den > 0, and NaN as         *)
(* <<0, 0>>.  The ChaCha20 generator of the rand_chacha crate is modelled  *)
(* by a fixed deterministic function of (key, position).                   *)
(***************************************************************************)
EXTENDS Integers, Sequences, FiniteSets

VARIABLES
    pc,        \* position of main(): the block that runs next
    args,      \* parsed command line (struct Args)
    input,     \* content of the PNG file at args.input
    info,      \* png::OutputInfo of the working buffer
    buf,       \* the working sample buffer
    before,    \* history: buf as it entered the block that last transformed it
    hidden,    \* history: the image decoded from args.conceal
    failure,   \* message of the panic / exit that ended the run
    exitCode,  \* process exit status once the run has ended
    out,       \* content of the file at args.output
    log,       \* history: blocks of main() executed in this run, in order
    run,       \* 1: first invocation, 2: reveal invocation on its output
    prev,      \* history: the first invocation, kept for the second
    fn         \* state of the library-function harnesses

pipeVars == <<pc, args, input, info, buf, before, hidden, failure, exitCode,
              out, log, run, prev>>
vars == <<pc, args, input, info, buf, before, hidden, failure, exitCode,
          out, log, run, prev, fn>>

(***************************************************************************)
(* Bounds of the model.                                                    *)
(***************************************************************************)
MaxPixels == 2     \* images have width * height <= MaxPixels
MaxKey == 0        \* keys are 0..MaxKey
MaxLen == 2        \* buffers of the cipher harness have up to MaxLen bytes
MaxDepth == 2      \* depths of the HSV harness are 1..MaxDepth

(***************************************************************************)
(* Program constants.                                                      *)
(***************************************************************************)
MinBits == 1
MaxBits == 8
U8Max == 255

BitWidths == MinBits..MaxBits
NoKey == -1
Keys == 0..MaxKey
KeyOpts == {NoKey} \cup Keys

(***************************************************************************)
(* u8 arithmetic.                                                          *)
(***************************************************************************)
Pow2(k) == 2 ^ k

RECURSIVE BitOp(_, _, _, _)
BitOp(op, x, y, k) ==
    IF k = 0 THEN 0
    ELSE LET bx == x % 2
             by == y % 2
             b  == CASE op = "and" -> bx * by
                    [] op = "or"  -> IF bx + by > 0 THEN 1 ELSE 0
                    [] op = "xor" -> (bx + by) % 2
         IN  b + 2 * BitOp(op, x \div 2, y \div 2, k - 1)

And8(x, y) == BitOp("and", x, y, 8)
Or8(x, y)  == BitOp("or", x, y, 8)
Xor8(x, y) == BitOp("xor", x, y, 8)
Shr8(x, k) == x \div Pow2(k)
Shl8(x, k) == (x * Pow2(k)) % 256

\* u8::MAX >> (8 - bits)
LowMask(bits) == Shr8(U8Max, 8 - bits)

(***************************************************************************)
(* Images.  color_type is the png crate's ColorType discriminant.          *)
(***************************************************************************)
Grayscale == 0
Rgb == 2
GrayscaleAlpha == 4
Rgba == 6
ColorTypes == {Grayscale, Rgb, GrayscaleAlpha, Rgba}

\* ColorType::samples()
Samples(ct) ==
    CASE ct = Grayscale -> 1
      [] ct = Rgb -> 3
      [] ct = GrayscaleAlpha -> 2
      [] ct = Rgba -> 4

\* (info.color_type as usize & 4) >> 2
Alpha(ct) == (ct \div 4) % 2

\* Colour and alpha values the decoded test images are made of.
Colours == {<<0, 0, 0>>, <<255, 90, 165>>}
Alphas == {255}

PixelsOf(ct) ==
    LET colour == IF Samples(ct) - Alpha(ct) = 3
                  THEN Colours
                  ELSE {<<c[1]>> : c \in Colours}
    IN  IF Alpha(ct) = 1
        THEN {c \o <<a>> : c \in colour, a \in Alphas}
        ELSE colour

RECURSIVE Flatten(_)
Flatten(pixels) ==
    IF pixels = <<>> THEN <<>> ELSE Head(pixels) \o Flatten(Tail(pixels))

Dims == {d \in (1..MaxPixels) \X (1..MaxPixels) : d[1] * d[2] <= MaxPixels}

ImagesOf(d, ct) ==
    {[width |-> d[1], height |-> d[2], ct |-> ct, data |-> Flatten(px)] :
        px \in [1..(d[1] * d[2]) -> PixelsOf(ct)]}

Images == UNION {ImagesOf(d, ct) : d \in Dims, ct \in ColorTypes}

NoImage == [width |-> 0, height |-> 0, ct |-> 0, data |-> <<>>]

(***************************************************************************)
(* f32 values: exact rationals <<n, d>> with d > 0 in lowest terms, and    *)
(* NaN == <<0, 0>>.  The code divides by zero only as 0.0 / 0.0.           *)
(***************************************************************************)
NaN == <<0, 0>>
IsNaN(a) == a[2] = 0

Abs(n) == IF n < 0 THEN -n ELSE n

RECURSIVE Gcd(_, _)
Gcd(a, b) == IF b = 0 THEN a ELSE Gcd(b, a % b)

Rat(n, d) ==
    IF d = 0 THEN NaN
    ELSE LET s == IF d < 0 THEN -1 ELSE 1
             g == Gcd(Abs(n), Abs(d))
         IN  <<(s * n) \div g, (s * d) \div g>>

F(n) == <<n, 1>>

FAdd(a, b) == IF IsNaN(a) \/ IsNaN(b) THEN NaN
              ELSE Rat(a[1] * b[2] + b[1] * a[2], a[2] * b[2])
FSub(a, b) == IF IsNaN(a) \/ IsNaN(b) THEN NaN
              ELSE Rat(a[1] * b[2] - b[1] * a[2], a[2] * b[2])
FMul(a, b) == IF IsNaN(a) \/ IsNaN(b) THEN NaN
              ELSE Rat(a[1] * b[1], a[2] * b[2])
FDiv(a, b) == IF IsNaN(a) \/ IsNaN(b) THEN NaN
              ELSE Rat(a[1] * b[2], a[2] * b[1])
\* Comparisons with NaN are false.
FLess(a, b) == ~IsNaN(a) /\ ~IsNaN(b) /\ a[1] * b[2] < b[1] * a[2]
FAbs(a) == IF IsNaN(a) THEN NaN ELSE <<Abs(a[1]), a[2]>>
\* f32::max and f32::min on values that are not NaN
FMax(a, b) == IF FLess(a, b) THEN b ELSE a
FMin(a, b) == IF FLess(b, a) THEN b ELSE a

\* Truncation toward zero of a rational.
Trunc(a) == IF a[1] >= 0 THEN a[1] \div a[2] ELSE -((-a[1]) \div a[2])

\* a % m for a positive integer m: the remainder has the sign of a.
FRem(a, m) == IF IsNaN(a) THEN NaN ELSE FSub(a, F(m * Trunc(FDiv(a, F(m)))))

\* `x as u8` on an f32: truncates, saturates, and sends NaN to 0.
FToU8(a) ==
    IF IsNaN(a) THEN 0
    ELSE LET t == Trunc(a)
         IN  IF t < 0 THEN 0 ELSE IF t > U8Max THEN U8Max ELSE t

(***************************************************************************)
(* HSVColor (hsv.rs).                                                      *)
(***************************************************************************)
from_rgb(red, green, blue, depth) ==
    LET n == F(Pow2(depth) - 1)
        r == FDiv(F(red), n)
        g == FDiv(F(green), n)
        b == FDiv(F(blue), n)
        v == FMax(r, FMax(g, b))
        c == FSub(v, FMin(r, FMin(g, b)))
        h == FMul(IF c = F(0) THEN F(0)
                  ELSE IF v = r THEN FRem(FDiv(FSub(g, b), c), 6)
                  ELSE IF v = g THEN FAdd(FDiv(FSub(b, r), c), F(2))
                  ELSE FAdd(FDiv(FSub(r, g), c), F(4)),
                  F(60))
        s == IF v = F(0) THEN F(0) ELSE FDiv(c, v)
    IN  [hue |-> h, sat |-> s, val |-> v]

\* to_rgb reaches its unreachable!() arm when no guard `h < k` holds.
to_rgb_unreachable(hsv) == ~FLess(FDiv(hsv.hue, F(60)), F(6))

to_rgb(hsv, depth) ==
    LET c == FMul(hsv.val, hsv.sat)
        h == FDiv(hsv.hue, F(60))
        x == FMul(c, FSub(F(1), FAbs(FSub(FRem(h, 2), F(1)))))
        m == FSub(hsv.val, c)
        rgb1 == IF FLess(h, F(1)) THEN <<c, x, F(0)>>
                ELSE IF FLess(h, F(2)) THEN <<x, c, F(0)>>
                ELSE IF FLess(h, F(3)) THEN <<F(0), c, x>>
                ELSE IF FLess(h, F(4)) THEN <<F(0), x, c>>
                ELSE IF FLess(h, F(5)) THEN <<x, F(0), c>>
                ELSE <<c, F(0), x>>
        n == F(Pow2(depth) - 1)
    IN  <<FToU8(FMul(FAdd(rgb1[1], m), n)),
          FToU8(FMul(FAdd(rgb1[2], m), n)),
          FToU8(FMul(FAdd(rgb1[3], m), n))>>

(***************************************************************************)
(* Keyed random sequence.  ChaCha20Rng::seed_from_u64(key) followed by     *)
(* repeated gen_range(0..=max): the i-th draw (i from 0) is a fixed        *)
(* function of the key, the bound and i, and lies in 0..max.               *)
(***************************************************************************)
KeyStream(key, max, i) ==
    (((key + 3) * 40503 + (i + 1) * 30011 + (key + 1) * (i + 2) * 977)
        \div 8) % (max + 1)

\* Mutant: the keystream is added instead of XOR-ed.
stream_cipher_add(b, key, bits) ==
    [i \in 1..Len(b) |->
        (b[i] + KeyStream(key, LowMask(bits), i - 1)) % 256]

\* Lines 156-166 of main.rs and stream_cipher of img.rs.
stream_cipher(b, key, bits) ==
    [i \in 1..Len(b) |-> Xor8(b[i], KeyStream(key, LowMask(bits), i - 1))]

(***************************************************************************)
(* The blocks of main().  A buffer is a sequence of samples; pixel p       *)
(* (from 0) has its channel j (from 0) at index p * samples + j + 1.       *)
(***************************************************************************)
Channel(i, samples) == (i - 1) % samples

SetMin(S) == CHOOSE x \in S : \A y \in S : x <= y
SetMax(S) == CHOOSE x \in S : \A y \in S : x >= y

\* Lines 93-99: every colour sample is shifted right, alpha is left alone.
Quantize(b, samples, alpha, bits) ==
    [i \in 1..Len(b) |->
        IF Channel(i, samples) < samples - alpha
        THEN Shr8(b[i], 8 - bits) ELSE b[i]]

ChannelVals(b, samples, j) ==
    {b[i] : i \in {k \in 1..Len(b) : Channel(k, samples) = j}}

\* Lines 105-111: the fold starts every channel at (maxx, 0).
MinMax(b, samples, j, maxx) ==
    <<SetMin({maxx} \cup ChannelVals(b, samples, j)),
      SetMax({0} \cup ChannelVals(b, samples, j))>>

\* Line 116-117: only max == 0 is guarded; a u16 division by zero panics.
stretch_panics(b, samples, alpha, bits) ==
    \E j \in 0..(samples - alpha - 1) :
        LET mm == MinMax(b, samples, j, LowMask(bits))
        IN  mm[2] # 0 /\ mm[2] = mm[1]

\* Lines 113-120.
Stretch(b, samples, alpha, bits) ==
    LET maxx == LowMask(bits)
    IN  [i \in 1..Len(b) |->
            LET j == Channel(i, samples)
            IN  IF j < samples - alpha
                THEN LET mm == MinMax(b, samples, j, maxx)
                     IN  IF mm[2] = 0 THEN 0
                         ELSE ((b[i] - mm[1]) * maxx) \div (mm[2] - mm[1])
                ELSE b[i]]

\* Lines 126-134: the HSV colour of pixel p (from 0).
PixelHsv(b, samples, alpha, bits, p) ==
    LET at(j) == b[p * samples + j + 1]
    IN  IF samples - alpha = 3
        THEN from_rgb(at(0), at(1), at(2), bits)
        ELSE from_rgb(at(0), at(0), at(0), bits)

\* Lines 137-139: the values of the pixels, as a set (sorted and deduped).
HsvVals(b, samples, alpha, bits) ==
    {PixelHsv(b, samples, alpha, bits, p).val :
        p \in 0..((Len(b) \div samples) - 1)}

\* Mutant: the share of the unique values that are <= v.
cdf_inclusive(vals, v) ==
    FDiv(F(Cardinality({u \in vals : FLess(u, v)}) + 1),
         F(Cardinality(vals)))

\* Lines 142-144: rank of v among the unique values, over their count - 1.
cdf(vals, v) ==
    FDiv(F(Cardinality({u \in vals : FLess(u, v)})),
         F(Cardinality(vals) - 1))

\* Lines 147-152: the pixel's colour with its value replaced by cdf(value).
EqualizedHsv(b, samples, alpha, bits, p) ==
    LET hsv == PixelHsv(b, samples, alpha, bits, p)
    IN  [hsv EXCEPT !.val = cdf(HsvVals(b, samples, alpha, bits), hsv.val)]

equalize_panics(b, samples, alpha, bits) ==
    \E p \in 0..((Len(b) \div samples) - 1) :
        to_rgb_unreachable(EqualizedHsv(b, samples, alpha, bits, p))

\* The zip at line 149 writes the first min(samples, 3) samples of a pixel.
Equalize(b, samples, alpha, bits) ==
    [i \in 1..Len(b) |->
        LET j == Channel(i, samples)
            p == (i - 1) \div samples
        IN  IF j < 3
            THEN to_rgb(EqualizedHsv(b, samples, alpha, bits, p), bits)[j + 1]
            ELSE b[i]]

\* Mutant: only the widths are compared.
DimsMismatchWidthOnly(a, b) == a.width # b.width

\* Line 177.
DimsMismatch(a, b) == a.width # b.width \/ a.height # b.height

\* Mutant: the assertion compares the sample counts, alpha included.
LayoutAssertSamples(i_samples, i_alpha, samples, alpha) ==
    i_samples = samples

\* Line 182.
LayoutAssert(i_samples, i_alpha, samples, alpha) ==
    i_samples - i_alpha = samples - alpha

\* Line 184: u8::MAX << bits.  bits = 8 overflows the shift: a build with
\* overflow checks panics, a build without them shifts by bits & 7.
shl_overflows(bits) == bits >= 8
EmbedMask(bits) == Shl8(U8Max, bits % 8)

\* Lines 186-193: both zips stop at the shorter side.
Embed(i_b, i_samples, b, samples, bits) ==
    [i \in 1..Len(i_b) |->
        LET j == Channel(i, i_samples)
            p == (i - 1) \div i_samples
        IN  IF j < samples /\ p < Len(b) \div samples
            THEN Or8(And8(i_b[i], EmbedMask(bits)), b[p * samples + j + 1])
            ELSE i_b[i]]

\* Lines 198-205.
Dequantize(b, bits) ==
    LET mask == LowMask(bits)
    IN  [i \in 1..Len(b) |-> (And8(b[i], mask) * U8Max) \div mask]

(***************************************************************************)
(* main(): one action per block, in the order of the source text.          *)
(***************************************************************************)
\* Mutant: the cipher block placed after the conceal / extract block.
StageAfterCipherLast(s) ==
    CASE s = "decode" -> "quantize"
      [] s = "quantize" -> "normalize"
      [] s = "normalize" -> "merge"
      [] s = "merge" -> "cipher"
      [] s = "cipher" -> "encode"
      [] s = "encode" -> "done"

StageAfter(s) ==
    CASE s = "decode" -> "quantize"
      [] s = "quantize" -> "normalize"
      [] s = "normalize" -> "cipher"
      [] s = "cipher" -> "merge"
      [] s = "merge" -> "encode"
      [] s = "encode" -> "done"

\* clap: reveal and conceal form a group; stretch conflicts with equalize
\* and reveal; equalize conflicts with reveal.
ArgSets ==
    {a \in [reveal : BOOLEAN, conceal : BOOLEAN, key : KeyOpts,
            bits : BitWidths, stretch : BOOLEAN, equalize : BOOLEAN] :
        /\ ~(a.reveal /\ a.conceal)
        /\ ~(a.stretch /\ (a.equalize \/ a.reveal))
        /\ ~(a.equalize /\ a.reveal)}

NoInfo == [width |-> 0, height |-> 0, ct |-> 0]
NoFailure == "none"
NoRun == [args |-> [reveal |-> FALSE, conceal |-> FALSE, key |-> NoKey,
                    bits |-> MaxBits, stretch |-> FALSE, equalize |-> FALSE],
          input |-> NoImage, hidden |-> NoImage, cover |-> <<>>]
NoFn == [op |-> "none"]

samples == Samples(info.ct)
alpha == Alpha(info.ct)

Init ==
    /\ pc = "decode"
    /\ args \in ArgSets
    /\ input \in Images
    /\ info = NoInfo
    /\ buf = <<>>
    /\ before = <<>>
    /\ hidden = NoImage
    /\ failure = NoFailure
    /\ exitCode = -1
    /\ out = NoImage
    /\ log = <<>>
    /\ run = 1
    /\ prev = NoRun
    /\ fn = NoFn

Panic(msg) ==
    /\ pc' = "failed"
    /\ failure' = msg
    /\ exitCode' = 101

\* Line 80.
Decode ==
    /\ pc = "decode"
    /\ info' = [width |-> input.width, height |-> input.height,
                ct |-> input.ct]
    /\ buf' = input.data
    /\ before' = buf
    /\ log' = Append(log, "decode")
    /\ pc' = StageAfter("decode")
    /\ UNCHANGED <<args, input, hidden, failure, exitCode, out, run, prev, fn>>

\* Lines 85-99.
QuantizeStep ==
    /\ pc = "quantize"
    /\ IF args.reveal
       THEN UNCHANGED <<buf, log>>
       ELSE /\ buf' = Quantize(buf, samples, alpha, args.bits)
            /\ log' = Append(log, "quantize")
    /\ before' = buf
    /\ pc' = StageAfter("quantize")
    /\ UNCHANGED <<args, input, info, hidden, failure, exitCode, out, run,
                   prev, fn>>

\* Lines 101-153.
Normalize ==
    /\ pc = "normalize"
    /\ before' = buf
    /\ IF args.stretch
       THEN /\ log' = Append(log, "stretch")
            /\ IF stretch_panics(buf, samples, alpha, args.bits)
               THEN Panic("attempt to divide by zero") /\ UNCHANGED buf
               ELSE /\ buf' = Stretch(buf, samples, alpha, args.bits)
                    /\ pc' = StageAfter("normalize")
                    /\ UNCHANGED <<failure, exitCode>>
       ELSE IF args.equalize
       THEN /\ log' = Append(log, "equalize")
            /\ IF equalize_panics(buf, samples, alpha, args.bits)
               THEN Panic("entered unreachable code") /\ UNCHANGED buf
               ELSE /\ buf' = Equalize(buf, samples, alpha, args.bits)
                    /\ pc' = StageAfter("normalize")
                    /\ UNCHANGED <<failure, exitCode>>
       ELSE /\ pc' = StageAfter("normalize")
            /\ UNCHANGED <<buf, log, failure, exitCode>>
    /\ UNCHANGED <<args, input, info, hidden, out, run, prev, fn>>

\* Lines 155-166.
Cipher ==
    /\ pc = "cipher"
    /\ before' = buf
    /\ IF args.key # NoKey
       THEN /\ buf' = stream_cipher(buf, args.key, args.bits)
            /\ log' = Append(log, "cipher")
       ELSE UNCHANGED <<buf, log>>
    /\ pc' = StageAfter("cipher")
    /\ UNCHANGED <<args, input, info, hidden, failure, exitCode, out, run,
                   prev, fn>>

\* Lines 168-196: decode the image to conceal, check it, merge.
Conceal ==
    /\ pc = "merge"
    /\ args.conceal
    /\ before' = buf
    /\ log' = Append(log, "embed")
    /\ \E img \in Images, overflow_checks \in BOOLEAN :
        /\ hidden' = img
        /\ IF DimsMismatch(img, info)
           THEN /\ pc' = "failed"
                /\ failure' = "Image dimensions do not match"
                /\ exitCode' = 255
                /\ UNCHANGED <<buf, info>>
           ELSE IF ~LayoutAssert(Samples(img.ct), Alpha(img.ct),
                                 samples, alpha)
           THEN /\ Panic("assertion failed")
                /\ UNCHANGED <<buf, info>>
           ELSE IF shl_overflows(args.bits) /\ overflow_checks
           THEN /\ Panic("attempt to shift left with overflow")
                /\ UNCHANGED <<buf, info>>
           ELSE /\ buf' = Embed(img.data, Samples(img.ct), buf, samples,
                                args.bits)
                /\ info' = [width |-> img.width, height |-> img.height,
                            ct |-> img.ct]
                /\ pc' = StageAfter("merge")
                /\ UNCHANGED <<failure, exitCode>>
    /\ UNCHANGED <<args, input, out, run, prev, fn>>

\* Lines 197-206.
Extract ==
    /\ pc = "merge"
    /\ ~args.conceal
    /\ before' = buf
    /\ log' = Append(log, "dequantize")
    /\ buf' = Dequantize(buf, args.bits)
    /\ pc' = StageAfter("merge")
    /\ UNCHANGED <<args, input, info, hidden, failure, exitCode, out, run,
                   prev, fn>>

\* Lines 208-217.
Encode ==
    /\ pc = "encode"
    /\ log' = Append(log, "encode")
    /\ out' = [width |-> info.width, height |-> info.height, ct |-> info.ct,
               data |-> buf]
    /\ exitCode' = 0
    /\ pc' = StageAfter("encode")
    /\ UNCHANGED <<args, input, info, buf, before, hidden, failure, run,
                   prev, fn>>

\* A second invocation: --reveal on the file the concealing run wrote,
\* with the same --bits and --key.
Reveal ==
    /\ pc = "done"
    /\ run = 1
    /\ args.conceal
    /\ run' = 2
    /\ prev' = [args |-> args, input |-> input, hidden |-> hidden,
                cover |-> before]
    /\ args' = [reveal |-> TRUE, conceal |-> FALSE, key |-> args.key,
                bits |-> args.bits, stretch |-> FALSE, equalize |-> FALSE]
    /\ input' = out
    /\ info' = NoInfo
    /\ buf' = <<>>
    /\ before' = <<>>
    /\ hidden' = NoImage
    /\ exitCode' = -1
    /\ log' = <<>>
    /\ pc' = "decode"
    /\ UNCHANGED <<failure, out, fn>>

Next ==
    \/ Decode
    \/ QuantizeStep
    \/ Normalize
    \/ Cipher
    \/ Conceal
    \/ Extract
    \/ Encode
    \/ Reveal

Spec == Init /\ [][Next]_vars

(***************************************************************************)
(* Harness for stream_cipher (img.rs): the cipher applied twice to a       *)
(* buffer with the same key and bit width.                                 *)
(***************************************************************************)
ByteVals == {0, 1, 90, 165, 255}
Buffers == UNION {[1..n -> ByteVals] : n \in 0..MaxLen}

PipeIdle ==
    /\ pc = "idle"
    /\ args = NoRun.args
    /\ input = NoImage
    /\ info = NoInfo
    /\ buf = <<>>
    /\ before = <<>>
    /\ hidden = NoImage
    /\ failure = NoFailure
    /\ exitCode = -1
    /\ out = NoImage
    /\ log = <<>>
    /\ run = 1
    /\ prev = NoRun

InitCipher ==
    /\ PipeIdle
    /\ \E b \in Buffers, k \in Keys, w \in BitWidths :
        fn = [op |-> "cipher", orig |-> b, mid |-> b, buf |-> b, key |-> k,
              bits |-> w, n |-> 0]

Encrypt ==
    /\ fn.op = "cipher"
    /\ fn.n < 2
    /\ fn' = [fn EXCEPT !.buf = stream_cipher(fn.buf, fn.key, fn.bits),
                        !.mid = fn.buf,
                        !.n = fn.n + 1]
    /\ UNCHANGED pipeVars

NextCipher == Encrypt

SpecCipher == InitCipher /\ [][NextCipher]_vars

(***************************************************************************)
(* Harness for HSVColor (hsv.rs): from_rgb, then to_rgb at the same depth. *)
(***************************************************************************)
InitHsv ==
    /\ PipeIdle
    /\ \E d \in 1..MaxDepth :
        \E r, g, b \in 0..(Pow2(d) - 1) :
            fn = [op |-> "hsv", rgb |-> <<r, g, b>>, depth |-> d,
                  hsv |-> [hue |-> F(0), sat |-> F(0), val |-> F(0)],
                  back |-> <<0, 0, 0>>, step |-> "from_rgb"]

FromRgb ==
    /\ fn.op = "hsv"
    /\ fn.step = "from_rgb"
    /\ fn' = [fn EXCEPT
                !.hsv = from_rgb(fn.rgb[1], fn.rgb[2], fn.rgb[3], fn.depth),
                !.step = "to_rgb"]
    /\ UNCHANGED pipeVars

ToRgb ==
    /\ fn.op = "hsv"
    /\ fn.step = "to_rgb"
    /\ IF to_rgb_unreachable(fn.hsv)
       THEN fn' = [fn EXCEPT !.step = "panic"]
       ELSE fn' = [fn EXCEPT !.back = to_rgb(fn.hsv, fn.depth),
                             !.step = "done"]
    /\ UNCHANGED pipeVars

NextHsv == FromRgb \/ ToRgb

SpecHsv == InitHsv /\ [][NextHsv]_vars

(***************************************************************************)
(* Properties.                                                             *)
(***************************************************************************)
\* The block named `block` has just run: it panicked, or the next block
\* has not started yet.
JustRan(block) ==
    /\ log # <<>>
    /\ log[Len(log)] = block
    /\ pc \in {"cipher", "failed"}

\* The first invocation concealed `hidden` in a cover of the same size.
SameDims ==
    /\ hidden # NoImage
    /\ hidden.width = input.width
    /\ hidden.height = input.height

\* C1: for every bit width, key and buffer (the empty one included), the
\* keystream XOR applied twice with the same key and bit width returns the
\* buffer unchanged.
C1_CipherSelfInverse ==
    (fn.op = "cipher" /\ fn.n = 2) => fn.buf = fn.orig

C1_Witness ==
    /\ fn.op = "cipher"
    /\ fn.n = 2
    /\ fn.mid # fn.orig
    /\ fn.buf = fn.orig

\* C2: revealing the output of an unkeyed conceal run yields, at every
\* sample, the low b bits of the cover sample given to embed, rescaled to
\* 0..255 with truncating division, for every bit width 1..8.
C2_RevealOfEmbed ==
    (/\ run = 2
     /\ pc = "done"
     /\ args.key = NoKey
     /\ prev.input.ct = prev.hidden.ct)
    => \A i \in 1..Len(out.data) :
          out.data[i] =
              (And8(prev.cover[i], LowMask(args.bits)) * U8Max)
                  \div LowMask(args.bits)

\* C3: every merged sample is (hidden & (0xFF << b)) | (cover & (2^b - 1))
\* in 8-bit arithmetic, for every bit width 1..8 and every channel; for
\* b = 8 the merged sample is the cover sample.
C3_EmbedFormula ==
    (/\ run = 1
     /\ args.conceal
     /\ pc = "encode"
     /\ input.ct = hidden.ct)
    => \A i \in 1..Len(buf) :
          buf[i] = Or8(And8(hidden.data[i], Shl8(U8Max, args.bits)),
                       And8(before[i], LowMask(args.bits)))

\* C4: when the image to conceal differs from the primary image in width
\* or height, the run has reported the failure and ended with a non-zero
\* status, and the output file does not exist.
C4_MismatchIsFatal ==
    (/\ hidden # NoImage
     /\ (hidden.width # input.width \/ hidden.height # input.height))
    => /\ pc = "failed"
       /\ failure = "Image dimensions do not match"
       /\ exitCode > 0
       /\ out = NoImage

C4_Witness ==
    /\ pc = "failed"
    /\ failure = "Image dimensions do not match"
    /\ hidden.width = input.width
    /\ hidden.height # input.height
    /\ out = NoImage

\* C5: after stretch no failure has occurred and every colour channel that
\* was constant is all 0, while every other colour channel has minimum 0
\* and maximum 2^b - 1.
C5_StretchPostcondition ==
    (args.stretch /\ JustRan("stretch"))
    => /\ failure = NoFailure
       /\ \A j \in 0..(samples - alpha - 1) :
            LET old == ChannelVals(before, samples, j)
                new == ChannelVals(buf, samples, j)
            IN  IF Cardinality(old) = 1
                THEN new = {0}
                ELSE SetMin(new) = 0 /\ SetMax(new) = LowMask(args.bits)

\* C6: from_rgb yields a hue in [0, 360), to_rgb never reaches its
\* unreachable arm, and to_rgb(from_rgb(c, d), d) = c for every depth d and
\* every triple c with channels in 0..2^d - 1.
C6_HsvRoundTrip ==
    fn.op = "hsv"
    => /\ fn.step # "panic"
       /\ fn.step \in {"to_rgb", "done"}
            => (~FLess(fn.hsv.hue, F(0)) /\ FLess(fn.hsv.hue, F(360)))
       /\ fn.step = "done" => fn.back = fn.rgb

\* C7 as stated: with equal width and height and different channel counts,
\* embed does not abort on the channel layout.
C7_MismatchNeverAborts ==
    (args.conceal /\ SameDims /\ hidden.ct # input.ct)
    => failure # "assertion failed"

\* C7 amended: channel indices are never clamped.  With equal width and
\* height, the run aborts on its assertion, writing no output, exactly when
\* the two images differ in their number of colour channels (channels minus
\* alpha).  Otherwise the output has the hidden image's layout: a channel
\* both images have carries the cover's sample of the same index OR-ed into
\* it, and a channel only the hidden image has is emitted unchanged.
C7_LayoutCheck ==
    (run = 1 /\ args.conceal /\ SameDims)
    => LET cs == Samples(input.ct)
           ca == Alpha(input.ct)
           hs == Samples(hidden.ct)
           ha == Alpha(hidden.ct)
       IN  /\ (hs - ha # cs - ca)
                => /\ pc = "failed"
                   /\ failure = "assertion failed"
                   /\ out = NoImage
           /\ (hs - ha = cs - ca) => failure # "assertion failed"
           /\ pc \in {"encode", "done"}
                => /\ info.ct = hidden.ct
                   /\ Len(buf) = Len(hidden.data)
                   /\ \A i \in 1..Len(buf) :
                        LET j == Channel(i, hs)
                            p == (i - 1) \div hs
                        IN  IF j < cs
                            THEN Or8(buf[i], before[p * cs + j + 1]) = buf[i]
                            ELSE buf[i] = hidden.data[i]

C7_Witness ==
    /\ run = 1
    /\ pc = "done"
    /\ args.conceal
    /\ input.ct = Rgb
    /\ hidden.ct = Rgba
    /\ SameDims

\* C8: when every pixel has the same HSV value, equalize completes without
\* failure and every colour sample of its output is 0.
C8_SingleValueEqualize ==
    (/\ args.equalize
     /\ JustRan("equalize")
     /\ Cardinality(HsvVals(before, samples, alpha, args.bits)) = 1)
    => /\ failure = NoFailure
       /\ pc = "cipher"
       /\ \A i \in 1..Len(buf) :
            Channel(i, samples) < samples - alpha => buf[i] = 0

C8_Witness ==
    /\ args.equalize
    /\ JustRan("equalize")
    /\ pc = "cipher"
    /\ Cardinality(HsvVals(before, samples, alpha, args.bits)) = 1
    /\ \E i \in 1..Len(before) : before[i] # 0 /\ buf[i] = 0

\* C9 as stated: decode, normalization, quantize, embed/extract, stream
\* cipher, dequantize-for-output, encode.
ClaimedRank(block) ==
    CASE block = "decode" -> 1
      [] block \in {"stretch", "equalize"} -> 2
      [] block = "quantize" -> 3
      [] block = "embed" -> 4
      [] block = "cipher" -> 5
      [] block = "dequantize" -> 6
      [] block = "encode" -> 7

C9_ClaimedOrder ==
    \A i, j \in 1..Len(log) :
        i < j => ClaimedRank(log[i]) < ClaimedRank(log[j])

\* C9 amended: the blocks that execute in a run occur in the order decode,
\* quantize, normalization (stretch or equalize), stream cipher, then embed
\* (when concealing) or dequantize-for-output (otherwise), then encode;
\* normalization never runs before quantization and the stream cipher
\* never runs after embed or dequantize.
CodeRank(block) ==
    CASE block = "decode" -> 1
      [] block = "quantize" -> 2
      [] block \in {"stretch", "equalize"} -> 3
      [] block = "cipher" -> 4
      [] block \in {"embed", "dequantize"} -> 5
      [] block = "encode" -> 6

C9_StageOrder ==
    \A i, j \in 1..Len(log) :
        i < j => CodeRank(log[i]) < CodeRank(log[j])

C9_Witness ==
    /\ pc = "done"
    /\ log = <<"decode", "quantize", "stretch", "cipher", "embed", "encode">>

\* C10: concealing with (b, k) and no normalization, then revealing the
\* output with the same (b, k), yields (cover >> (8 - b)) * 255 / (2^b - 1)
\* at every sample, for every bit width 1..8, when cover and hidden have
\* the same layout without alpha.
C10_KeyedRoundTrip ==
    (/\ run = 2
     /\ pc = "done"
     /\ args.key # NoKey
     /\ args.key = prev.args.key
     /\ ~prev.args.stretch
     /\ ~prev.args.equalize
     /\ prev.input.ct = prev.hidden.ct
     /\ Alpha(prev.input.ct) = 0)
    => \A i \in 1..Len(out.data) :
          out.data[i] =
              (Shr8(prev.input.data[i], 8 - args.bits) * U8Max)
                  \div LowMask(args.bits)

====
